---- MODULE Spec2Model ----
(***************************************************************************)
(* Constant propagation over the typed AST                                 *)
(* (zokrates_core/src/static_analysis/propagation.rs).                     *)
(*                                                                         *)
(* Expressions, assignees and statements are records.  An expression       *)
(* carries its sort (the TypedExpression variant that wraps it) and its    *)
(* tag (the constructor).  A panic of the pass is the value Panic(kind),   *)
(* which every enclosing propagation passes on unchanged.                  *)
(***************************************************************************)
EXTENDS Integers, Sequences, FiniteSets, TLC

(***************************************************************************)
(* Bounds of the model and constants of the program.                       *)
(***************************************************************************)
\* the field modulus (a small prime stands for the bn128 prime)
P == 7
\* the largest value parse::<usize>() accepts
USIZE_MAX == 5
\* statements per function body
MaxStmts == 3
\* number literals of the input programs are 0..MaxLit
MaxLit == 2
\* size of the field array variable of the input programs
ArrSize == 2
\* the largest number of functions of a program
MaxFuncs == 3

(***************************************************************************)
(* typed_absy: expressions.                                                *)
(***************************************************************************)
Number(n) == [sort |-> "FieldElement", tag |-> "Number", n |-> n]
FIdentifier(id) == [sort |-> "FieldElement", tag |-> "Identifier", id |-> id]
Binary(tag, e1, e2) == [sort |-> "FieldElement", tag |-> tag, e1 |-> e1, e2 |-> e2]
IfElse(c, e1, e2) ==
    [sort |-> "FieldElement", tag |-> "IfElse",
     condition |-> c, consequence |-> e1, alternative |-> e2]
FunctionCall(id, args) ==
    [sort |-> "FieldElement", tag |-> "FunctionCall", id |-> id, arguments |-> args]
Select(a, i) == [sort |-> "FieldElement", tag |-> "Select", array |-> a, index |-> i]

Value(b) == [sort |-> "Boolean", tag |-> "Value", b |-> b]
BIdentifier(id) == [sort |-> "Boolean", tag |-> "Identifier", id |-> id]
Compare(tag, e1, e2) == [sort |-> "Boolean", tag |-> tag, e1 |-> e1, e2 |-> e2]

AIdentifier(size, id) ==
    [sort |-> "FieldElementArray", tag |-> "Identifier", size |-> size, id |-> id]
AValue(size, v) ==
    [sort |-> "FieldElementArray", tag |-> "Value", size |-> size, v |-> v]

Panic(kind) == [sort |-> "panic", tag |-> kind]
IsPanic(e) == e.sort = "panic"

IsNumber(e) == e.sort = "FieldElement" /\ e.tag = "Number"
IsBoolValue(e) == e.sort = "Boolean" /\ e.tag = "Value"
IsArrayValue(e) == e.sort = "FieldElementArray" /\ e.tag = "Value"

(***************************************************************************)
(* absy::variable and typed_absy: variables, assignees (the keys of the    *)
(* constants map).                                                         *)
(***************************************************************************)
field_element(id) == [id |-> id, ty |-> "FieldElement", size |-> 0]
boolean(id) == [id |-> id, ty |-> "Boolean", size |-> 0]
field_array(id, size) == [id |-> id, ty |-> "FieldElementArray", size |-> size]

AssigneeIdentifier(var) == [tag |-> "Identifier", var |-> var]
AssigneeArrayElement(var, index) == [tag |-> "ArrayElement", var |-> var, index |-> index]

\* HashMap::new, get, insert, remove
EmptyMap == [k \in {} |-> Number(0)]
Contains(constants, key) == key \in DOMAIN constants
Insert(constants, key, e) ==
    [k \in DOMAIN constants \cup {key} |-> IF k = key THEN e ELSE constants[k]]
Remove(constants, key) == [k \in DOMAIN constants \ {key} |-> constants[k]]

(***************************************************************************)
(* The field (FieldPrime): arithmetic modulo P, comparison of the          *)
(* representatives in 0..P-1.                                              *)
(***************************************************************************)
RECURSIVE PowMod(_, _)
PowMod(n, k) == IF k = 0 THEN 1 % P ELSE (n * PowMod(n, k - 1)) % P

\* the multiplicative inverse of a nonzero n
InverseMul(n) == CHOOSE m \in 0..(P - 1) : (n * m) % P = 1

FieldAdd(n1, n2) == Number((n1 + n2) % P)
FieldSub(n1, n2) == Number((n1 - n2 + P) % P)
FieldMult(n1, n2) == Number((n1 * n2) % P)
\* zero has no inverse: the division fails
FieldDiv(n1, n2) ==
    IF n2 = 0 THEN Panic("DivisionByZero") ELSE Number((n1 * InverseMul(n2)) % P)
FieldPow(n1, n2) == Number(PowMod(n1, n2))

\* n.to_dec_string().parse::<usize>(): Err when the value exceeds usize
ParsesAsUsize(n) == n <= USIZE_MAX

(***************************************************************************)
(* PropagateWithContext: expressions.  Each arm of a match is an operator  *)
(* over the already propagated sub-terms; the three propagate functions    *)
(* recurse and hand the results to the arms in the order of the source.    *)
(***************************************************************************)
\* the first panic raised while a sequence of expressions is propagated in order
HasPanic(s) == \E i \in 1..Len(s) : IsPanic(s[i])
FirstPanic(s) == s[CHOOSE i \in 1..Len(s) : IsPanic(s[i]) /\ \A j \in 1..(i - 1) : ~IsPanic(s[j])]

\* FieldElementExpression::Identifier
PropagateFieldIdentifier(id, constants) ==
    LET key == AssigneeIdentifier(field_element(id))
    IN  IF Contains(constants, key)
        THEN IF constants[key].sort = "FieldElement"
             THEN constants[key]
             ELSE Panic("TypeInvariant")
        ELSE FIdentifier(id)

\* mutant: the operands of Sub are taken in the wrong order
FoldArithmeticSwapped(tag, p1, p2) ==
    IF IsPanic(p1) THEN p1
    ELSE IF IsPanic(p2) THEN p2
    ELSE IF IsNumber(p1) /\ IsNumber(p2)
         THEN CASE tag = "Add" -> FieldAdd(p1.n, p2.n)
                [] tag = "Sub" -> FieldSub(p2.n, p1.n)
                [] tag = "Mult" -> FieldMult(p1.n, p2.n)
                [] tag = "Div" -> FieldDiv(p1.n, p2.n)
                [] tag = "Pow" -> FieldPow(p1.n, p2.n)
         ELSE Binary(tag, p1, p2)

\* FieldElementExpression::Add | Sub | Mult | Div | Pow: the match on the pair of
\* propagated operands
FoldArithmetic(tag, p1, p2) ==
    IF IsPanic(p1) THEN p1
    ELSE IF IsPanic(p2) THEN p2
    ELSE IF IsNumber(p1) /\ IsNumber(p2)
         THEN CASE tag = "Add" -> FieldAdd(p1.n, p2.n)
                [] tag = "Sub" -> FieldSub(p1.n, p2.n)
                [] tag = "Mult" -> FieldMult(p1.n, p2.n)
                [] tag = "Div" -> FieldDiv(p1.n, p2.n)
                [] tag = "Pow" -> FieldPow(p1.n, p2.n)
         ELSE Binary(tag, p1, p2)

\* mutant: only the arm that the condition selects is looked at
ResolveIfElseLazy(consequence, alternative, condition) ==
    IF IsPanic(condition) THEN condition
    ELSE IF IsBoolValue(condition) /\ condition.b THEN consequence
    ELSE IF IsBoolValue(condition) /\ ~condition.b THEN alternative
    ELSE IF IsPanic(consequence) THEN consequence
    ELSE IF IsPanic(alternative) THEN alternative
    ELSE IfElse(condition, consequence, alternative)

\* FieldElementExpression::IfElse: both arms are propagated, then the condition
ResolveIfElse(consequence, alternative, condition) ==
    IF IsPanic(consequence) THEN consequence
    ELSE IF IsPanic(alternative) THEN alternative
    ELSE IF IsPanic(condition) THEN condition
    ELSE IF IsBoolValue(condition) /\ condition.b THEN consequence
    ELSE IF IsBoolValue(condition) /\ ~condition.b THEN alternative
    ELSE IfElse(condition, consequence, alternative)

\* mutant: the propagated arguments are collected in reverse order
RebuildFunctionCallReversed(id, arguments) ==
    IF HasPanic(arguments) THEN FirstPanic(arguments)
    ELSE FunctionCall(id, [i \in 1..Len(arguments) |-> arguments[Len(arguments) + 1 - i]])

\* FieldElementExpression::FunctionCall: only the arguments are propagated
RebuildFunctionCall(id, arguments) ==
    IF HasPanic(arguments) THEN FirstPanic(arguments) ELSE FunctionCall(id, arguments)

\* mutant: the bound is checked with <= instead of <
SelectValueOffByOne(size, v, n) ==
    IF ~ParsesAsUsize(n) THEN Panic("ParseInt")
    ELSE IF n <= size
         THEN IF n < Len(v) THEN v[n + 1] ELSE Panic("VecIndex")
         ELSE Panic("OutOfBounds")

\* Select of a literal array at a literal index
SelectValue(size, v, n) ==
    IF ~ParsesAsUsize(n) THEN Panic("ParseInt")
    ELSE IF n < size
         THEN IF n < Len(v) THEN v[n + 1] ELSE Panic("VecIndex")
         ELSE Panic("OutOfBounds")

\* Select of an array identifier at a literal index: the array-element key
SelectIdentifier(size, id, n, constants) ==
    LET key == AssigneeArrayElement(field_array(id, size), Number(n))
    IN  IF Contains(constants, key)
        THEN IF constants[key].sort = "FieldElement"
             THEN constants[key]
             ELSE Panic("TypeInvariant")
        ELSE Select(AIdentifier(size, id), Number(n))

\* FieldElementExpression::Select: the match on (array, index)
ResolveSelect(array, index, constants) ==
    IF IsPanic(array) THEN array
    ELSE IF IsPanic(index) THEN index
    ELSE IF IsArrayValue(array) /\ IsNumber(index)
         THEN SelectValue(array.size, array.v, index.n)
    ELSE IF array.tag = "Identifier" /\ IsNumber(index)
         THEN SelectIdentifier(array.size, array.id, index.n, constants)
    ELSE Select(array, index)

\* FieldElementArrayExpression::Identifier
PropagateArrayIdentifier(size, id, constants) ==
    LET key == AssigneeIdentifier(field_array(id, size))
    IN  IF Contains(constants, key)
        THEN IF constants[key].sort = "FieldElementArray"
             THEN constants[key]
             ELSE Panic("TypeInvariant")
        ELSE AIdentifier(size, id)

\* FieldElementArrayExpression::Value: the size is kept, the elements are mapped
RebuildArrayValue(size, v) ==
    IF HasPanic(v) THEN FirstPanic(v) ELSE AValue(size, v)

\* mutant: the key of a boolean identifier is built from its name alone, as the
\* key of the field element of that name
PropagateBooleanIdentifierByName(id, constants) ==
    LET key == AssigneeIdentifier(field_element(id))
    IN  IF Contains(constants, key)
        THEN IF constants[key].sort = "Boolean"
             THEN constants[key]
             ELSE Panic("TypeInvariant")
        ELSE BIdentifier(id)

\* BooleanExpression::Identifier
PropagateBooleanIdentifier(id, constants) ==
    LET key == AssigneeIdentifier(boolean(id))
    IN  IF Contains(constants, key)
        THEN IF constants[key].sort = "Boolean"
             THEN constants[key]
             ELSE Panic("TypeInvariant")
        ELSE BIdentifier(id)

\* BooleanExpression::Eq | Lt | Le | Gt | Ge: the match on the pair of propagated
\* operands
FoldComparison(tag, p1, p2) ==
    IF IsPanic(p1) THEN p1
    ELSE IF IsPanic(p2) THEN p2
    ELSE IF IsNumber(p1) /\ IsNumber(p2)
         THEN CASE tag = "Eq" -> Value(p1.n = p2.n)
                [] tag = "Lt" -> Value(p1.n < p2.n)
                [] tag = "Le" -> Value(p1.n <= p2.n)
                [] tag = "Gt" -> Value(p1.n > p2.n)
                [] tag = "Ge" -> Value(p1.n >= p2.n)
         ELSE Compare(tag, p1, p2)

\* impl PropagateWithContext for TypedExpression (dispatch on the sort), for
\* FieldElementExpression, FieldElementArrayExpression and BooleanExpression
RECURSIVE PropagateExpression(_, _)
PropagateExpression(e, constants) ==
    LET PropagateAll(exprs) ==
            [i \in 1..Len(exprs) |-> PropagateExpression(exprs[i], constants)]
    IN  CASE e.sort = "FieldElement" /\ e.tag = "Number" -> e
          [] e.sort = "FieldElement" /\ e.tag = "Identifier" ->
                PropagateFieldIdentifier(e.id, constants)
          [] e.sort = "FieldElement" /\ e.tag \in {"Add", "Sub", "Mult", "Div", "Pow"} ->
                FoldArithmetic(e.tag, PropagateExpression(e.e1, constants),
                               PropagateExpression(e.e2, constants))
          [] e.sort = "FieldElement" /\ e.tag = "IfElse" ->
                ResolveIfElse(PropagateExpression(e.consequence, constants),
                              PropagateExpression(e.alternative, constants),
                              PropagateExpression(e.condition, constants))
          [] e.sort = "FieldElement" /\ e.tag = "FunctionCall" ->
                RebuildFunctionCall(e.id, PropagateAll(e.arguments))
          [] e.sort = "FieldElement" /\ e.tag = "Select" ->
                ResolveSelect(PropagateExpression(e.array, constants),
                              PropagateExpression(e.index, constants), constants)
          [] e.sort = "FieldElementArray" /\ e.tag = "Identifier" ->
                PropagateArrayIdentifier(e.size, e.id, constants)
          [] e.sort = "FieldElementArray" /\ e.tag = "Value" ->
                RebuildArrayValue(e.size, PropagateAll(e.v))
          [] e.sort = "Boolean" /\ e.tag = "Value" -> e
          [] e.sort = "Boolean" /\ e.tag = "Identifier" ->
                PropagateBooleanIdentifier(e.id, constants)
          [] e.sort = "Boolean" /\ e.tag \in {"Eq", "Lt", "Le", "Gt", "Ge"} ->
                FoldComparison(e.tag, PropagateExpression(e.e1, constants),
                               PropagateExpression(e.e2, constants))

PropagateAll(exprs, constants) ==
    [i \in 1..Len(exprs) |-> PropagateExpression(exprs[i], constants)]

(***************************************************************************)
(* typed_absy: statements.                                                 *)
(***************************************************************************)
Return(exprs) == [tag |-> "Return", expressions |-> exprs]
Definition(assignee, e) == [tag |-> "Definition", assignee |-> assignee, expr |-> e]
Condition(e1, e2) == [tag |-> "Condition", e1 |-> e1, e2 |-> e2]
Declaration(var) == [tag |-> "Declaration", var |-> var]
For == [tag |-> "For"]
\* TypedExpressionList::FunctionCall(id, arguments, types)
ListFunctionCall(id, args, types) ==
    [tag |-> "FunctionCall", id |-> id, arguments |-> args, types |-> types]
MultipleDefinition(vars, list) ==
    [tag |-> "MultipleDefinition", variables |-> vars, list |-> list]

(***************************************************************************)
(* TypedStatement::propagate.  The result is the constants map after the   *)
(* statement, the emitted statement (Some(s) is <<s>>, None is <<>>) and   *)
(* the panic raised, if any.                                               *)
(***************************************************************************)
Emit(constants, s) == [constants |-> constants, statement |-> <<s>>, panic |-> ""]
Absorb(constants) == [constants |-> constants, statement |-> <<>>, panic |-> ""]
Abort(constants, kind) == [constants |-> constants, statement |-> <<>>, panic |-> kind]

\* TypedExpressionList::propagate
PropagateExpressionList(list, constants) ==
    LET args == PropagateAll(list.arguments, constants)
    IN  IF HasPanic(args) THEN FirstPanic(args)
        ELSE ListFunctionCall(list.id, args, list.types)

\* TypedStatement::Return
PropagateReturn(expressions, constants) ==
    LET es == PropagateAll(expressions, constants)
    IN  IF HasPanic(es) THEN Abort(constants, FirstPanic(es).tag)
        ELSE Emit(constants, Return(es))

\* array.iter().all(|e| e is Number)
AllNumbers(v) == \A i \in 1..Len(v) : IsNumber(v[i])

\* mutant: every array Value is bound, the check of its elements is left out
PropagateDefinitionAnyArray(var, expr, constants) ==
    LET e == PropagateExpression(expr, constants)
    IN  IF IsPanic(e) THEN Abort(constants, e.tag)
        ELSE IF IsBoolValue(e) \/ IsNumber(e) \/ IsArrayValue(e)
             THEN Absorb(Insert(constants, AssigneeIdentifier(var), e))
        ELSE Emit(constants, Definition(AssigneeIdentifier(var), e))

\* mutant: a literal is bound only while the variable has no binding yet
PropagateDefinitionKeepFirst(var, expr, constants) ==
    LET e == PropagateExpression(expr, constants)
    IN  IF IsPanic(e) THEN Abort(constants, e.tag)
        ELSE IF (IsBoolValue(e) \/ IsNumber(e) \/ (IsArrayValue(e) /\ AllNumbers(e.v)))
                /\ ~Contains(constants, AssigneeIdentifier(var))
             THEN Absorb(Insert(constants, AssigneeIdentifier(var), e))
        ELSE Emit(constants, Definition(AssigneeIdentifier(var), e))

\* mutant: a definition that is emitted also forgets the binding of the variable
PropagateDefinitionInvalidate(var, expr, constants) ==
    LET e == PropagateExpression(expr, constants)
    IN  IF IsPanic(e) THEN Abort(constants, e.tag)
        ELSE IF IsBoolValue(e) \/ IsNumber(e) \/ (IsArrayValue(e) /\ AllNumbers(e.v))
             THEN Absorb(Insert(constants, AssigneeIdentifier(var), e))
        ELSE Emit(Remove(constants, AssigneeIdentifier(var)),
                  Definition(AssigneeIdentifier(var), e))

\* TypedStatement::Definition(TypedAssignee::Identifier(var), expr)
PropagateDefinition(var, expr, constants) ==
    LET e == PropagateExpression(expr, constants)
    IN  IF IsPanic(e) THEN Abort(constants, e.tag)
        ELSE IF IsBoolValue(e) \/ IsNumber(e)
             THEN Absorb(Insert(constants, AssigneeIdentifier(var), e))
        ELSE IF IsArrayValue(e)
             THEN IF AllNumbers(e.v)
                  THEN Absorb(Insert(constants, AssigneeIdentifier(var), AValue(e.size, e.v)))
                  ELSE Emit(constants, Definition(AssigneeIdentifier(var), AValue(e.size, e.v)))
        ELSE Emit(constants, Definition(AssigneeIdentifier(var), e))

\* mutant: the element is written at the front of the stored array, whatever n is
UpdateArrayElementFront(constants, var, n, expr) ==
    LET key == AssigneeIdentifier(var)
    IN  IF ~Contains(constants, key) THEN Absorb(constants)
        ELSE IF ~IsArrayValue(constants[key]) THEN Abort(constants, "TypeInvariant")
        ELSE IF ~ParsesAsUsize(n) THEN Abort(constants, "ParseInt")
        ELSE IF n < constants[key].size
             THEN Absorb([constants EXCEPT ![key].v[1] = expr])
        ELSE Abort(constants, "OutOfBounds")

\* mutant: the element is pushed onto the stored array instead of replacing v[n]
UpdateArrayElementPush(constants, var, n, expr) ==
    LET key == AssigneeIdentifier(var)
    IN  IF ~Contains(constants, key) THEN Absorb(constants)
        ELSE IF ~IsArrayValue(constants[key]) THEN Abort(constants, "TypeInvariant")
        ELSE IF ~ParsesAsUsize(n) THEN Abort(constants, "ParseInt")
        ELSE IF n < constants[key].size
             THEN Absorb([constants EXCEPT ![key].v = Append(@, expr)])
        ELSE Abort(constants, "OutOfBounds")

\* mutant: entry(..).or_insert(..): an unbound array gets an entry holding the element
UpdateArrayElementOrInsert(constants, var, n, expr) ==
    LET key == AssigneeIdentifier(var)
    IN  IF ~Contains(constants, key)
        THEN Absorb(Insert(constants, key, AValue(var.size, [i \in 1..var.size |-> expr])))
        ELSE IF ~IsArrayValue(constants[key]) THEN Abort(constants, "TypeInvariant")
        ELSE IF ~ParsesAsUsize(n) THEN Abort(constants, "ParseInt")
        ELSE IF n < constants[key].size
             THEN IF n < Len(constants[key].v)
                  THEN Absorb([constants EXCEPT ![key].v[n + 1] = expr])
                  ELSE Abort(constants, "VecIndex")
        ELSE Abort(constants, "OutOfBounds")

\* mutant: a literal written to an unbound array is stored under the key a[n]
UpdateArrayElementStoreKey(constants, var, n, expr) ==
    LET key == AssigneeIdentifier(var)
    IN  IF ~Contains(constants, key)
        THEN Absorb(Insert(constants, AssigneeArrayElement(var, Number(n)), expr))
        ELSE IF ~IsArrayValue(constants[key]) THEN Abort(constants, "TypeInvariant")
        ELSE IF ~ParsesAsUsize(n) THEN Abort(constants, "ParseInt")
        ELSE IF n < constants[key].size
             THEN IF n < Len(constants[key].v)
                  THEN Absorb([constants EXCEPT ![key].v[n + 1] = expr])
                  ELSE Abort(constants, "VecIndex")
        ELSE Abort(constants, "OutOfBounds")

\* constants.entry(Identifier(var)).and_modify(..): a[n] = expr on the stored array
UpdateArrayElement(constants, var, n, expr) ==
    LET key == AssigneeIdentifier(var)
    IN  IF ~Contains(constants, key) THEN Absorb(constants)
        ELSE IF ~IsArrayValue(constants[key]) THEN Abort(constants, "TypeInvariant")
        ELSE IF ~ParsesAsUsize(n) THEN Abort(constants, "ParseInt")
        ELSE IF n < constants[key].size
             THEN IF n < Len(constants[key].v)
                  THEN Absorb([constants EXCEPT ![key].v[n + 1] = expr])
                  ELSE Abort(constants, "VecIndex")
        ELSE Abort(constants, "OutOfBounds")

\* mutant: the definition is emitted but the binding of a is kept
InvalidateArrayKeep(constants, var, index, expr) ==
    Emit(constants, Definition(AssigneeArrayElement(var, index), expr))

\* the arm (index, expr) of a[b] = c: a is forgotten and the definition is emitted
InvalidateArray(constants, var, index, expr) ==
    Emit(Remove(constants, AssigneeIdentifier(var)),
         Definition(AssigneeArrayElement(var, index), expr))

\* TypedStatement::Definition(TypedAssignee::ArrayElement(Identifier(var), index), expr)
PropagateArrayElementDefinition(var, index, expr, constants) ==
    LET i == PropagateExpression(index, constants)
        e == PropagateExpression(expr, constants)
    IN  IF IsPanic(i) THEN Abort(constants, i.tag)
        ELSE IF IsPanic(e) THEN Abort(constants, e.tag)
        ELSE IF IsNumber(i) /\ IsNumber(e) THEN UpdateArrayElement(constants, var, i.n, e)
        ELSE InvalidateArray(constants, var, i, e)

\* mutant: a condition between two literals is decided and not emitted
PropagateConditionDecided(e1, e2, constants) ==
    LET p1 == PropagateExpression(e1, constants)
        p2 == PropagateExpression(e2, constants)
    IN  IF IsPanic(p1) THEN Abort(constants, p1.tag)
        ELSE IF IsPanic(p2) THEN Abort(constants, p2.tag)
        ELSE IF IsNumber(p1) /\ IsNumber(p2) THEN Absorb(constants)
        ELSE Emit(constants, Condition(p1, p2))

\* TypedStatement::Condition
PropagateCondition(e1, e2, constants) ==
    LET p1 == PropagateExpression(e1, constants)
        p2 == PropagateExpression(e2, constants)
    IN  IF IsPanic(p1) THEN Abort(constants, p1.tag)
        ELSE IF IsPanic(p2) THEN Abort(constants, p2.tag)
        ELSE Emit(constants, Condition(p1, p2))

\* TypedStatement::MultipleDefinition
PropagateMultipleDefinition(variables, list, constants) ==
    LET l == PropagateExpressionList(list, constants)
    IN  IF l.tag # "FunctionCall" THEN Abort(constants, l.tag)
        ELSE Emit(constants, MultipleDefinition(variables, l))

\* impl TypedStatement: fn propagate
StatementPropagate(s, constants) ==
    CASE s.tag = "Return" -> PropagateReturn(s.expressions, constants)
      [] s.tag = "Definition" /\ s.assignee.tag = "Identifier" ->
            PropagateDefinition(s.assignee.var, s.expr, constants)
      [] s.tag = "Definition" /\ s.assignee.tag = "ArrayElement" ->
            PropagateArrayElementDefinition(s.assignee.var, s.assignee.index, s.expr, constants)
      [] s.tag = "Condition" -> PropagateCondition(s.e1, s.e2, constants)
      [] s.tag = "For" -> Abort(constants, "LoopNotUnrolled")
      [] s.tag = "MultipleDefinition" ->
            PropagateMultipleDefinition(s.variables, s.list, constants)
      [] OTHER -> Emit(constants, s)

\* impl Propagate for TypedFunction: the statements are folded from an empty map
RECURSIVE PropagateStatements(_, _)
PropagateStatements(stmts, acc) ==
    IF stmts = <<>> \/ acc.panic # "" THEN acc
    ELSE LET r == StatementPropagate(Head(stmts), acc.constants)
         IN  PropagateStatements(Tail(stmts),
                [constants |-> r.constants,
                 statements |-> acc.statements \o r.statement,
                 panic |-> r.panic])

FunctionPropagate(stmts) ==
    PropagateStatements(stmts, [constants |-> EmptyMap, statements |-> <<>>, panic |-> ""])

\* typed_absy: a function is its id, its signature and its statements
TypedFunction(id, signature, stmts) ==
    [id |-> id, signature |-> signature, statements |-> stmts]

\* the statements of the functions of fs before the i-th, in order
RECURSIVE StatementsBefore(_, _)
StatementsBefore(fs, i) ==
    IF i <= 1 THEN <<>> ELSE StatementsBefore(fs, i - 1) \o fs[i - 1].statements

\* TypedFunction { statements: .., ..self }, r being the outcome of the filter_map
WithStatements(f, r) ==
    [function |-> [f EXCEPT !.statements = r.statements],
     constants |-> r.constants,
     panic |-> r.panic]

\* mutant: one constants map is shared by the functions of the program
TypedFunctionPropagateShared(fs, i) ==
    WithStatements(fs[i],
        PropagateStatements(fs[i].statements,
            [constants |-> FunctionPropagate(StatementsBefore(fs, i)).constants,
             statements |-> <<>>, panic |-> ""]))

\* impl Propagate for TypedFunction, on the i-th function of the program, over
\* a map that is new
TypedFunctionPropagate(fs, i) ==
    WithStatements(fs[i], FunctionPropagate(fs[i].statements))

(***************************************************************************)
(* The input programs: statements over the field variables x and y, the    *)
(* boolean variable b and the field array a of size ArrSize.               *)
(***************************************************************************)
Lits == 0..MaxLit
VarX == field_element("x")
VarY == field_element("y")
VarB == boolean("b")
\* the boolean variable that has the name of the field variable x
VarXB == boolean("x")
VarA == field_array("a", ArrSize)
ArrA == AIdentifier(ArrSize, "a")

\* [1, 2, .., ArrSize] reduced to the literals of the input, and [x, 0, .., 0]
LiteralArray == AValue(ArrSize, [i \in 1..ArrSize |-> Number(i % (MaxLit + 1))])
PartialArray ==
    AValue(ArrSize, [i \in 1..ArrSize |-> IF i = 1 THEN FIdentifier("x") ELSE Number(0)])
\* the field element P - 1, beyond usize
MinusOne == Binary("Sub", Number(0), Number(1))

FieldRhs ==
    {Number(n) : n \in Lits \ {0}}
    \cup {FIdentifier("y"),
          Binary("Add", FIdentifier("x"), Number(1)),
          Select(ArrA, Number(ArrSize - 1)),
          Select(ArrA, Number(ArrSize)),
          IfElse(BIdentifier("b"), Number(0), Select(ArrA, Number(ArrSize))),
          FunctionCall("f", <<FIdentifier("x"),
                              FunctionCall("g", <<Binary("Add", FIdentifier("y"), Number(1))>>)>>)}
BooleanRhs ==
    {Value(TRUE), Value(FALSE), Compare("Lt", FIdentifier("x"), Number(MaxLit))}
ArrayRhs == {LiteralArray, PartialArray}
IndexExprs == {Number(ArrSize - 1), Number(ArrSize), FIdentifier("y"), MinusOne}
ElementRhs == {Number(0), FIdentifier("x")}

DefinitionStmts ==
    {Definition(AssigneeIdentifier(VarX), e) : e \in FieldRhs}
    \cup {Definition(AssigneeIdentifier(VarY), Number(0))}
    \cup {Definition(AssigneeIdentifier(VarB), e) : e \in BooleanRhs}
    \cup {Definition(AssigneeIdentifier(VarXB), Value(TRUE))}
    \cup {Definition(AssigneeIdentifier(VarA), e) : e \in ArrayRhs}
ArrayElementStmts ==
    {Definition(AssigneeArrayElement(VarA, i), e) : i \in IndexExprs, e \in ElementRhs}
ReturnStmts ==
    {Return(<<FIdentifier("x"), BIdentifier("b")>>),
     Return(<<FIdentifier("x"), BIdentifier("x")>>),
     Return(<<ArrA>>),
     Return(<<Select(ArrA, Number(ArrSize - 1))>>),
     Return(<<Select(ArrA, FIdentifier("y"))>>)}
ConditionStmts == {Condition(FIdentifier("x"), Number(1))}
MultipleDefinitionStmts ==
    {MultipleDefinition(<<VarX>>, ListFunctionCall("f", <<FIdentifier("y")>>, <<"FieldElement">>))}
DeclarationStmts == {Declaration(VarA)}

(***************************************************************************)
(* The state: the statements of the function body consumed so far, the     *)
(* constants map, the statements emitted so far, and where the pass is:    *)
(* "running", "done" after the final Return, or the kind of the panic.     *)
(* expr and result are the argument and the value of a single expression   *)
(* propagation.                                                            *)
(***************************************************************************)
VARIABLES statements, constants, output, status, expr, result, program, functions

vars == <<statements, constants, output, status, expr, result, program, functions>>

Unset == [sort |-> "none", tag |-> "none"]

\* TypedFunction::propagate: let mut constants = HashMap::new()
Init ==
    /\ statements = <<>>
    /\ constants = EmptyMap
    /\ output = <<>>
    /\ status = "running"
    /\ expr = Unset
    /\ result = Unset
    /\ program = <<>>
    /\ functions = <<>>

\* the filter_map over self.statements has a statement left to consume
Running == status = "running" /\ Len(statements) < MaxStmts

\* one step of the filter_map: s.propagate(&mut constants, functions)
Consume(s) ==
    LET r == StatementPropagate(s, constants)
    IN  /\ statements' = Append(statements, s)
        /\ IF r.panic # ""
           THEN /\ status' = r.panic
                /\ UNCHANGED <<constants, output>>
           ELSE /\ constants' = r.constants
                /\ output' = output \o r.statement
                /\ status' = IF s.tag = "Return" THEN "done" ELSE "running"
        /\ UNCHANGED <<expr, result, program, functions>>

StepReturn == \E s \in ReturnStmts : Running /\ Consume(s)
StepDefinition == \E s \in DefinitionStmts : Running /\ Consume(s)
StepArrayElement == \E s \in ArrayElementStmts : Running /\ Consume(s)
StepCondition == \E s \in ConditionStmts : Running /\ Consume(s)
StepMultipleDefinition == \E s \in MultipleDefinitionStmts : Running /\ Consume(s)
StepDeclaration == \E s \in DeclarationStmts : Running /\ Consume(s)
StepFor == Running /\ Consume(For)

Next ==
    \/ StepReturn
    \/ StepDefinition
    \/ StepArrayElement
    \/ StepCondition
    \/ StepMultipleDefinition
    \/ StepDeclaration
    \/ StepFor

Spec == Init /\ [][Next]_vars

(***************************************************************************)
(* A single expression propagated under a literal constants map: the       *)
(* operands range over the whole field, the identifiers x and y and one    *)
(* compound term; x, b and a are bound or not.                             *)
(***************************************************************************)
ArithmeticTags == {"Add", "Sub", "Mult", "Div", "Pow"}
ComparisonTags == {"Eq", "Lt", "Le", "Gt", "Ge"}
Operands ==
    {Number(n) : n \in 0..(P - 1)}
    \cup {FIdentifier("x"), FIdentifier("y"), Binary("Add", FIdentifier("x"), Number(1))}
FieldInputs ==
    {Binary(t, e1, e2) : t \in ArithmeticTags, e1 \in Operands, e2 \in Operands}
BooleanInputs ==
    {Compare(t, e1, e2) : t \in ComparisonTags, e1 \in Operands, e2 \in Operands}
\* IfElse over literal, bound, unbound and folding conditions; the arms are
\* literals, identifiers, a Select past the end of a and a division by y
IfElseConditions ==
    {Value(TRUE), Value(FALSE), BIdentifier("b"),
     Compare("Lt", FIdentifier("x"), Number(MaxLit)),
     Compare("Eq", Select(ArrA, Number(ArrSize)), Number(0))}
IfElseArms ==
    {Number(1), FIdentifier("x"),
     Select(ArrA, Number(0)),
     Select(ArrA, Number(ArrSize)),
     Binary("Div", Number(1), FIdentifier("y")),
     IfElse(BIdentifier("b"), FIdentifier("y"), Number(0))}
IfElseInputs ==
    {IfElse(c, e1, e2) : c \in IfElseConditions, e1 \in IfElseArms, e2 \in IfElseArms}
ConstantsInputs ==
    {EmptyMap,
     Insert(EmptyMap, AssigneeIdentifier(VarX), Number(MaxLit)),
     Insert(Insert(EmptyMap, AssigneeIdentifier(VarX), Number(P - 1)),
            AssigneeIdentifier(VarY), Number(0)),
     Insert(Insert(EmptyMap, AssigneeIdentifier(VarB), Value(TRUE)),
            AssigneeIdentifier(VarA), LiteralArray),
     Insert(Insert(EmptyMap, AssigneeIdentifier(VarB), Value(FALSE)),
            AssigneeIdentifier(VarX), Number(0))}

InitExpr ==
    /\ statements = <<>>
    /\ constants \in ConstantsInputs
    /\ output = <<>>
    /\ status = "expression"
    /\ expr \in FieldInputs \cup BooleanInputs \cup IfElseInputs
    /\ result = Unset
    /\ program = <<>>
    /\ functions = <<>>

\* e.propagate(&mut constants, functions) on a field expression
PropagateFieldExpr ==
    /\ result = Unset
    /\ expr.sort = "FieldElement"
    /\ result' = PropagateExpression(expr, constants)
    /\ UNCHANGED <<statements, constants, output, status, expr, program, functions>>

\* e.propagate(&mut constants, functions) on a boolean expression
PropagateBooleanExpr ==
    /\ result = Unset
    /\ expr.sort = "Boolean"
    /\ result' = PropagateExpression(expr, constants)
    /\ UNCHANGED <<statements, constants, output, status, expr, program, functions>>

NextExpr == PropagateFieldExpr \/ PropagateBooleanExpr

SpecExpr == InitExpr /\ [][NextExpr]_vars

(***************************************************************************)
(* A program: up to MaxFuncs functions over the same variable names.       *)
(* statements, output and constants show the function propagated last,     *)
(* the map being the one that is dropped when that function returns.       *)
(***************************************************************************)
FieldSignature == [inputs |-> <<"FieldElement">>, outputs |-> <<"FieldElement">>]
ArraySignature ==
    [inputs |-> <<"FieldElementArray">>, outputs |-> <<"FieldElement", "Boolean">>]

FunctionInputs ==
    {TypedFunction("main", FieldSignature,
        <<Definition(AssigneeIdentifier(VarX), Number(MaxLit)),
          Definition(AssigneeIdentifier(VarB), Value(TRUE)),
          Return(<<FIdentifier("x")>>)>>),
     TypedFunction("f", FieldSignature,
        <<Return(<<Binary("Add", FIdentifier("x"), Number(1))>>)>>),
     TypedFunction("g", ArraySignature,
        <<Definition(AssigneeIdentifier(VarA), LiteralArray),
          Definition(AssigneeIdentifier(VarY),
                     IfElse(BIdentifier("b"), FIdentifier("x"), Number(0))),
          Return(<<FIdentifier("y"), BIdentifier("b")>>)>>),
     TypedFunction("h", ArraySignature,
        <<Definition(AssigneeArrayElement(VarA, Number(0)), FIdentifier("x")),
          Return(<<Select(ArrA, Number(ArrSize - 1)), BIdentifier("b")>>)>>),
     TypedFunction("k", FieldSignature,
        <<Return(<<Select(ArrA, Number(ArrSize))>>)>>),
     TypedFunction("p", FieldSignature,
        <<Definition(AssigneeIdentifier(VarA), LiteralArray),
          Return(<<Select(ArrA, Number(ArrSize))>>)>>)}

Programs ==
    UNION {[1..n -> FunctionInputs] : n \in 1..MaxFuncs}

InitProg ==
    /\ statements = <<>>
    /\ constants = EmptyMap
    /\ output = <<>>
    /\ status = "program"
    /\ expr = Unset
    /\ result = Unset
    /\ program \in Programs
    /\ functions = <<>>

\* TypedProg::propagate, one iteration of the loop over self.functions
PropagateNextFunction ==
    /\ status = "program"
    /\ Len(functions) < Len(program)
    /\ \E r \in {TypedFunctionPropagate(program, Len(functions) + 1)} :
           /\ statements' = program[Len(functions) + 1].statements
           /\ IF r.panic # ""
              THEN /\ status' = r.panic
                   /\ UNCHANGED <<constants, output, functions>>
              ELSE /\ functions' = Append(functions, r.function)
                   /\ constants' = r.constants
                   /\ output' = r.function.statements
                   /\ status' = "program"
    /\ UNCHANGED <<expr, result, program>>

\* TypedProg::propagate, after the loop: TypedProg { functions, ..self }
ReturnProgram ==
    /\ status = "program"
    /\ Len(functions) = Len(program)
    /\ status' = "propagated"
    /\ UNCHANGED <<statements, constants, output, expr, result, program, functions>>

NextProg == PropagateNextFunction \/ ReturnProgram

SpecProg == InitProg /\ [][NextProg]_vars

(***************************************************************************)
(* Reference evaluator.  A value is a literal expression; a run of a       *)
(* function body under an input binding of x, y, b and a ends in the       *)
(* sequence of returned values, or is stuck (failed assertion, division by *)
(* zero, index out of range, no Return).                                   *)
(***************************************************************************)
Stuck == Panic("stuck")

\* calls are opaque: a fixed interpretation of the callee
CallValue(id, args) ==
    IF \E i \in 1..Len(args) : ~IsNumber(args[i]) THEN Stuck
    ELSE Number((Len(id) + Len(args)
                 + (IF Len(args) > 0 THEN args[1].n ELSE 0)
                 + (IF Len(args) > 1 THEN 2 * args[2].n ELSE 0)) % P)

VarOf(e) ==
    CASE e.sort = "FieldElement" -> field_element(e.id)
      [] e.sort = "Boolean" -> boolean(e.id)
      [] e.sort = "FieldElementArray" -> field_array(e.id, e.size)

RECURSIVE Eval(_, _)
Eval(e, store) ==
    LET EvalAll(exprs) == [i \in 1..Len(exprs) |-> Eval(exprs[i], store)]
    IN  CASE e.tag \in {"Number", "Value"} /\ e.sort # "FieldElementArray" -> e
          [] e.tag = "Identifier" ->
                IF VarOf(e) \in DOMAIN store THEN store[VarOf(e)] ELSE Stuck
          [] e.tag \in ArithmeticTags ->
                LET v1 == Eval(e.e1, store)
                    v2 == Eval(e.e2, store)
                IN  IF IsPanic(v1) \/ IsPanic(v2) THEN Stuck
                    ELSE (CASE e.tag = "Add" -> Number((v1.n + v2.n) % P)
                            [] e.tag = "Sub" -> Number((v1.n - v2.n + P) % P)
                            [] e.tag = "Mult" -> Number((v1.n * v2.n) % P)
                            [] e.tag = "Div" ->
                                  IF v2.n = 0 THEN Stuck
                                  ELSE Number(CHOOSE q \in 0..(P - 1) : (q * v2.n) % P = v1.n)
                            [] e.tag = "Pow" ->
                                  Number(IF v2.n = 0 THEN 1 ELSE (v1.n ^ v2.n) % P))
          [] e.tag \in ComparisonTags ->
                LET w1 == Eval(e.e1, store)
                    w2 == Eval(e.e2, store)
                IN  IF IsPanic(w1) \/ IsPanic(w2) THEN Stuck
                    ELSE (CASE e.tag = "Eq" -> Value(w1.n = w2.n)
                            [] e.tag = "Lt" -> Value(w1.n < w2.n)
                            [] e.tag = "Le" -> Value(w1.n <= w2.n)
                            [] e.tag = "Gt" -> Value(w1.n > w2.n)
                            [] e.tag = "Ge" -> Value(w1.n >= w2.n))
          [] e.tag = "IfElse" ->
                LET c == Eval(e.condition, store)
                IN  IF IsPanic(c) THEN Stuck
                    ELSE IF c.b THEN Eval(e.consequence, store)
                    ELSE Eval(e.alternative, store)
          [] e.tag = "FunctionCall" -> CallValue(e.id, EvalAll(e.arguments))
          [] e.tag = "Select" ->
                LET a == Eval(e.array, store)
                    i == Eval(e.index, store)
                IN  IF IsPanic(a) \/ IsPanic(i) THEN Stuck
                    ELSE IF i.n < Len(a.v) THEN a.v[i.n + 1] ELSE Stuck
          [] e.tag = "Value" /\ e.sort = "FieldElementArray" ->
                LET v == EvalAll(e.v)
                IN  IF HasPanic(v) THEN Stuck ELSE AValue(e.size, v)

\* the store after one statement that is not a Return; ok is FALSE when it is stuck
Execute(s, store) ==
    LET Halt == [ok |-> FALSE, store |-> store]
        Go(st) == [ok |-> TRUE, store |-> st]
    IN  CASE s.tag = "Definition" /\ s.assignee.tag = "Identifier" ->
                LET v == Eval(s.expr, store)
                IN  IF IsPanic(v) THEN Halt
                    ELSE Go([k \in DOMAIN store \cup {s.assignee.var} |->
                                IF k = s.assignee.var THEN v ELSE store[k]])
          [] s.tag = "Definition" /\ s.assignee.tag = "ArrayElement" ->
                LET w == Eval(s.expr, store)
                    i == Eval(s.assignee.index, store)
                    var == s.assignee.var
                IN  IF IsPanic(w) \/ IsPanic(i) \/ var \notin DOMAIN store THEN Halt
                    ELSE IF i.n < Len(store[var].v)
                         THEN Go([store EXCEPT ![var].v[i.n + 1] = w])
                    ELSE Halt
          [] s.tag = "Condition" ->
                LET v1 == Eval(s.e1, store)
                    v2 == Eval(s.e2, store)
                IN  IF IsPanic(v1) \/ IsPanic(v2) \/ v1 # v2 THEN Halt ELSE Go(store)
          [] s.tag = "MultipleDefinition" ->
                LET args == [j \in 1..Len(s.list.arguments) |->
                                Eval(s.list.arguments[j], store)]
                    c == CallValue(s.list.id, args)
                IN  IF IsPanic(c) THEN Halt
                    ELSE Go([k \in DOMAIN store \cup {s.variables[1]} |->
                                IF k = s.variables[1] THEN c ELSE store[k]])
          [] s.tag = "Declaration" -> Go(store)
          [] OTHER -> Halt

RECURSIVE Run(_, _)
Run(stmts, store) ==
    IF stmts = <<>> THEN Stuck
    ELSE IF Head(stmts).tag = "Return"
         THEN LET r == [i \in 1..Len(Head(stmts).expressions) |->
                            Eval(Head(stmts).expressions[i], store)]
              IN  IF HasPanic(r) THEN Stuck ELSE [sort |-> "result", tag |-> "Return", r |-> r]
    ELSE LET next == Execute(Head(stmts), store)
         IN  IF ~next.ok THEN Stuck ELSE Run(Tail(stmts), next.store)

\* the input bindings of the function arguments x, y, b and a
Bindings ==
    {[k \in {VarX, VarY, VarB, VarA} |->
        CASE k = VarX -> Number(vx)
          [] k = VarY -> Number(vy)
          [] k = VarB -> Value(vb)
          [] k = VarA -> AValue(ArrSize, [i \in 1..ArrSize |-> Number(va)])] :
     vx \in {0, MaxLit}, vy \in {0, 1}, vb \in BOOLEAN, va \in {0, 1}}

(***************************************************************************)
(* Properties.                                                             *)
(***************************************************************************)
Completed == status \in {"running", "done"}
Aborted == status \notin {"running", "done", "expression", "program", "propagated"}

\* C1: semantic preservation.  Whenever a function body ending in a Return
\* evaluates to a result r under an input binding, the propagated body evaluates
\* to the same r under that binding.
C1_SemanticPreservation ==
    status = "done" =>
        \A binding \in Bindings :
            Run(statements, binding) # Stuck =>
                Run(output, binding) = Run(statements, binding)

\* C2: idempotence.  Propagating the output of a pass that did not abort gives
\* that output again: no abort, the same statements in the same order.
C2_Idempotence ==
    Completed =>
        /\ FunctionPropagate(output).panic = ""
        /\ FunctionPropagate(output).statements = output

\* a finished body of which one statement was absorbed and two were emitted, one
\* of them rewritten
C2_Witness ==
    /\ status = "done"
    /\ Len(output) = 2
    /\ Len(statements) = 3
    /\ \E i \in 1..2 : \A j \in 1..3 : output[i] # statements[j]

\* C3: literal-only environment.  Every value bound in the constants map is a
\* Number, a boolean Value, or an array Value all of whose elements are Numbers.
C3_LiteralOnly ==
    \A k \in DOMAIN constants :
        \/ IsNumber(constants[k])
        \/ IsBoolValue(constants[k])
        \/ /\ IsArrayValue(constants[k])
           /\ \A i \in 1..Len(constants[k].v) : IsNumber(constants[k].v[i])

\* a partially constant array was defined and emitted, and the map holds a
\* literal all the same
C3_Witness ==
    /\ Completed
    /\ \E i \in 1..Len(output) :
          /\ output[i].tag = "Definition"
          /\ IsArrayValue(output[i].expr)
          /\ \E j \in 1..Len(output[i].expr.v) : ~IsNumber(output[i].expr.v[j])
    /\ AssigneeIdentifier(VarA) \notin DOMAIN constants
    /\ DOMAIN constants # {}

\* the statement consumed last, and the constants map before it was consumed
IsElementWrite(s) == s.tag = "Definition" /\ s.assignee.tag = "ArrayElement"
IsWholeDefinition(s) == s.tag = "Definition" /\ s.assignee.tag = "Identifier"
LastStatement == statements[Len(statements)]
Before == FunctionPropagate(SubSeq(statements, 1, Len(statements) - 1)).constants
SameExcept(c1, c2, key) ==
    /\ DOMAIN c1 \ {key} = DOMAIN c2 \ {key}
    /\ \A k \in DOMAIN c1 \ {key} : c1[k] = c2[k]

\* C4: constant-array update.  An element write a[index] = expr whose index
\* folds to Number(n), n below the size of the literal array bound to a, and
\* whose expr folds to Number(c), leaves a bound to the same array except that
\* position n holds Number(c); no other binding changes and nothing is emitted.
C4_ConstantArrayUpdate ==
    [][LET s == statements'[Len(statements')]
           key == AssigneeIdentifier(s.assignee.var)
           i == PropagateExpression(s.assignee.index, constants)
           e == PropagateExpression(s.expr, constants)
       IN  (/\ IsElementWrite(s)
            /\ Contains(constants, key)
            /\ IsArrayValue(constants[key])
            /\ IsNumber(i)
            /\ IsNumber(e)
            /\ i.n < constants[key].size)
           => /\ status' = "running"
              /\ output' = output
              /\ SameExcept(constants, constants', key)
              /\ Contains(constants', key)
              /\ IsArrayValue(constants'[key])
              /\ constants'[key].size = constants[key].size
              /\ Len(constants'[key].v) = Len(constants[key].v)
              /\ \A j \in 1..Len(constants[key].v) :
                    constants'[key].v[j] = IF j = i.n + 1 THEN e ELSE constants[key].v[j]
      ]_vars

\* a literal element write has changed one element of a bound literal array
C4_Witness ==
    /\ status = "running"
    /\ Len(statements) >= 2
    /\ IsElementWrite(LastStatement)
    /\ IsNumber(PropagateExpression(LastStatement.assignee.index, Before))
    /\ IsNumber(PropagateExpression(LastStatement.expr, Before))
    /\ Contains(Before, AssigneeIdentifier(VarA))
    /\ Contains(constants, AssigneeIdentifier(VarA))
    /\ constants[AssigneeIdentifier(VarA)] # Before[AssigneeIdentifier(VarA)]
    /\ DOMAIN constants # {AssigneeIdentifier(VarA)}

C6_InvalidationFirewall ==
    [][LET s == statements'[Len(statements')]
       IN  /\ IsElementWrite(s) =>
                LET key == AssigneeIdentifier(s.assignee.var)
                    i == PropagateExpression(s.assignee.index, constants)
                    e == PropagateExpression(s.expr, constants)
                IN  (~IsPanic(i) /\ ~IsPanic(e) /\ ~(IsNumber(i) /\ IsNumber(e)))
                    => /\ status' = "running"
                       /\ ~Contains(constants', key)
                       /\ SameExcept(constants, constants', key)
                       /\ output' = Append(output,
                                        Definition(AssigneeArrayElement(s.assignee.var, i), e))
           /\ \A k \in DOMAIN constants' \ DOMAIN constants :
                /\ IsWholeDefinition(s)
                /\ s.assignee = k
                /\ constants'[k] = PropagateExpression(s.expr, constants)
                /\ \/ IsNumber(constants'[k])
                   \/ IsBoolValue(constants'[k])
                   \/ IsArrayValue(constants'[k]) /\ AllNumbers(constants'[k].v)
           /\ (s.tag = "Return" /\ status' = "done") =>
                \A j \in 1..Len(s.expressions) :
                    (s.expressions[j].tag = "Identifier"
                     /\ ~Contains(constants, AssigneeIdentifier(VarOf(s.expressions[j]))))
                    => output'[Len(output')].expressions[j] = s.expressions[j]
      ]_vars

\* a was bound to a literal array, forgotten by a non-literal element write, and
\* then returned as the unresolved identifier
C6_Witness ==
    /\ status = "done"
    /\ Len(statements) = 3
    /\ statements[1] = Definition(AssigneeIdentifier(VarA), LiteralArray)
    /\ IsElementWrite(statements[2])
    /\ statements[3] = Return(<<ArrA>>)
    /\ Len(output) = 2
    /\ IsElementWrite(output[1])
    /\ output[2] = Return(<<ArrA>>)
    /\ constants = EmptyMap

\* the sub-expressions of an expression, itself included, and the expressions of
\* a statement
RECURSIVE SubExpressions(_)
SubExpressions(e) ==
    {e} \cup
    (CASE e.tag \in ArithmeticTags \cup ComparisonTags ->
            SubExpressions(e.e1) \cup SubExpressions(e.e2)
       [] e.tag = "IfElse" ->
            SubExpressions(e.condition) \cup SubExpressions(e.consequence)
                \cup SubExpressions(e.alternative)
       [] e.tag = "FunctionCall" ->
            UNION {SubExpressions(e.arguments[i]) : i \in 1..Len(e.arguments)}
       [] e.tag = "Select" -> SubExpressions(e.array) \cup SubExpressions(e.index)
       [] IsArrayValue(e) -> UNION {SubExpressions(e.v[i]) : i \in 1..Len(e.v)}
       [] OTHER -> {})

StatementExpressions(s) ==
    CASE s.tag = "Return" -> {s.expressions[i] : i \in 1..Len(s.expressions)}
      [] IsWholeDefinition(s) -> {s.expr}
      [] IsElementWrite(s) -> {s.assignee.index, s.expr}
      [] s.tag = "Condition" -> {s.e1, s.e2}
      [] s.tag = "MultipleDefinition" ->
            {s.list.arguments[i] : i \in 1..Len(s.list.arguments)}
      [] OTHER -> {}

SelectsOf(s) ==
    {e \in UNION {SubExpressions(t) : t \in StatementExpressions(s)} :
        e.sort = "FieldElement" /\ e.tag = "Select"}

\* an element write, or a Select of the statement, whose index folds to a Number
\* that is not below the size of the array it addresses
OutOfRangeAccess(s, c) ==
    \/ /\ IsElementWrite(s)
       /\ IsNumber(PropagateExpression(s.assignee.index, c))
       /\ PropagateExpression(s.assignee.index, c).n >= s.assignee.var.size
    \/ \E sel \in SelectsOf(s) :
          /\ IsNumber(PropagateExpression(sel.index, c))
          /\ PropagateExpression(sel.index, c).n >= sel.array.size

\* C7 as stated: an index that folds to Number(n) with n >= size always aborts
\* the pass with OutOfBounds, and OutOfBounds is raised for no other index.
C7_OutOfRangeAlwaysAborts ==
    [][LET s == statements'[Len(statements')]
       IN  OutOfRangeAccess(s, constants) <=> status' = "OutOfBounds"
      ]_vars

\* a Select whose array propagates to a literal Value and whose index folds to a
\* Number within usize that is not below the size of that Value
LiteralOutOfRange(sel, c) ==
    /\ IsArrayValue(PropagateExpression(sel.array, c))
    /\ IsNumber(PropagateExpression(sel.index, c))
    /\ ParsesAsUsize(PropagateExpression(sel.index, c).n)
    /\ PropagateExpression(sel.index, c).n >= PropagateExpression(sel.array, c).size

\* an element write of a Number at such an index into a bound literal array
WriteOutOfRange(s, c) ==
    /\ IsElementWrite(s)
    /\ Contains(c, AssigneeIdentifier(s.assignee.var))
    /\ IsArrayValue(c[AssigneeIdentifier(s.assignee.var)])
    /\ IsNumber(PropagateExpression(s.assignee.index, c))
    /\ IsNumber(PropagateExpression(s.expr, c))
    /\ ParsesAsUsize(PropagateExpression(s.assignee.index, c).n)
    /\ PropagateExpression(s.assignee.index, c).n >= c[AssigneeIdentifier(s.assignee.var)].size

\* C7 (amended): the bound is checked only against a literal array.  A Select
\* whose array propagates to a literal Value(size, v) and whose index folds to
\* Number(n), size <= n <= usize::MAX, aborts the pass (with OutOfBounds when it
\* is the whole right-hand side of a Definition), and so does, with OutOfBounds,
\* an element write of a literal at such an n into an array bound to a literal
\* Value.  OutOfBounds is raised in no other case: never for n < size, never for
\* an array that is an unbound identifier, never for an index beyond usize.
C7_LiteralOutOfRangeAborts ==
    [][LET s == statements'[Len(statements')]
       IN  /\ WriteOutOfRange(s, constants) => status' = "OutOfBounds"
           /\ (\E sel \in SelectsOf(s) : LiteralOutOfRange(sel, constants))
                => status' \notin {"running", "done"}
           /\ (IsWholeDefinition(s) /\ s.expr \in SelectsOf(s)
               /\ LiteralOutOfRange(s.expr, constants))
                => status' = "OutOfBounds"
           /\ status' = "OutOfBounds"
                => \/ WriteOutOfRange(s, constants)
                   \/ \E sel \in SelectsOf(s) : LiteralOutOfRange(sel, constants)
      ]_vars

\* x = a[ArrSize] has aborted the pass with OutOfBounds, a being bound to a literal
C7_Witness ==
    /\ status = "OutOfBounds"
    /\ LastStatement = Definition(AssigneeIdentifier(VarX), Select(ArrA, Number(ArrSize)))
    /\ Contains(constants, AssigneeIdentifier(VarA))

\* C8: function-boundary opacity.  A FunctionCall that is the right-hand side of
\* an emitted Definition, or the expression list of a MultipleDefinition, keeps its
\* id and its arguments in number and order, each argument being the propagation
\* of the original one; a call among the arguments stays a call with its id and
\* arity, and the result types of the expression list are unchanged.
C8_FunctionBoundary ==
    [][LET s == statements'[Len(statements')]
           out == output'[Len(output')]
       IN  /\ (IsWholeDefinition(s) /\ s.expr.tag = "FunctionCall" /\ status' = "running")
                => /\ Len(output') = Len(output) + 1
                   /\ IsWholeDefinition(out)
                   /\ out.assignee = s.assignee
                   /\ out.expr.sort = "FieldElement"
                   /\ out.expr.tag = "FunctionCall"
                   /\ out.expr.id = s.expr.id
                   /\ Len(out.expr.arguments) = Len(s.expr.arguments)
                   /\ \A i \in 1..Len(s.expr.arguments) :
                        /\ out.expr.arguments[i]
                              = PropagateExpression(s.expr.arguments[i], constants)
                        /\ s.expr.arguments[i].tag = "FunctionCall"
                              => /\ out.expr.arguments[i].tag = "FunctionCall"
                                 /\ out.expr.arguments[i].id = s.expr.arguments[i].id
                                 /\ Len(out.expr.arguments[i].arguments)
                                       = Len(s.expr.arguments[i].arguments)
           /\ (s.tag = "MultipleDefinition" /\ status' = "running")
                => /\ Len(output') = Len(output) + 1
                   /\ out.tag = "MultipleDefinition"
                   /\ out.variables = s.variables
                   /\ out.list.tag = "FunctionCall"
                   /\ out.list.id = s.list.id
                   /\ out.list.types = s.list.types
                   /\ Len(out.list.arguments) = Len(s.list.arguments)
                   /\ \A i \in 1..Len(s.list.arguments) :
                        out.list.arguments[i]
                            = PropagateExpression(s.list.arguments[i], constants)
      ]_vars

\* x = f(x, g(y + 1)) was emitted as x = f(MaxLit, g(1)): the arguments are
\* literals and both calls are still there
C8_Witness ==
    /\ status = "running"
    /\ Len(statements) = 3
    /\ LastStatement.tag = "Definition"
    /\ LastStatement.expr.tag = "FunctionCall"
    /\ output = <<Definition(AssigneeIdentifier(VarX),
                    FunctionCall("f", <<Number(MaxLit), FunctionCall("g", <<Number(1)>>)>>))>>

\* C9: array-shape preservation.  Every array Value(n, v) of the emitted
\* statements and of the constants map has Len(v) = n (the arrays of the input
\* programs all have).
ShapeOk(e) == \A sub \in SubExpressions(e) : IsArrayValue(sub) => Len(sub.v) = sub.size
C9_ArrayShape ==
    /\ \A i \in 1..Len(output) : \A e \in StatementExpressions(output[i]) : ShapeOk(e)
    /\ \A k \in DOMAIN constants : ShapeOk(constants[k])
    /\ \A i \in 1..Len(statements) : \A e \in StatementExpressions(statements[i]) : ShapeOk(e)

\* an array Value was emitted and the array bound to a was updated in place
C9_Witness ==
    /\ status = "running"
    /\ Len(statements) = 3
    /\ \E i \in 1..Len(output) :
          IsWholeDefinition(output[i]) /\ IsArrayValue(output[i].expr)
    /\ IsElementWrite(LastStatement)
    /\ Contains(Before, AssigneeIdentifier(VarA))
    /\ Contains(constants, AssigneeIdentifier(VarA))
    /\ constants[AssigneeIdentifier(VarA)] # Before[AssigneeIdentifier(VarA)]

\* C10: binary-operator folding.  When both propagated operands are Numbers the
\* result is the literal of the field operation on them (arithmetic modulo P,
\* division defined for a nonzero divisor, comparison of the representatives);
\* otherwise it is the same constructor over the two propagated operands, in
\* the same order.
C10_BinaryFolding ==
    (result # Unset /\ expr.tag \in ArithmeticTags \cup ComparisonTags) =>
        LET p1 == PropagateExpression(expr.e1, constants)
            p2 == PropagateExpression(expr.e2, constants)
        IN  IF IsNumber(p1) /\ IsNumber(p2)
            THEN CASE expr.tag = "Add" -> result = Number((p1.n + p2.n) % P)
                   [] expr.tag = "Sub" ->
                        /\ IsNumber(result)
                        /\ result.n \in 0..(P - 1)
                        /\ (result.n + p2.n) % P = p1.n
                   [] expr.tag = "Mult" -> result = Number((p1.n * p2.n) % P)
                   [] expr.tag = "Div" ->
                        IF p2.n = 0 THEN IsPanic(result)
                        ELSE /\ IsNumber(result)
                             /\ result.n \in 0..(P - 1)
                             /\ (result.n * p2.n) % P = p1.n
                   [] expr.tag = "Pow" ->
                        result = Number(IF p2.n = 0 THEN 1 ELSE (p1.n ^ p2.n) % P)
                   [] expr.tag = "Eq" -> result = Value(p1.n = p2.n)
                   [] expr.tag = "Lt" -> result = Value(p1.n < p2.n)
                   [] expr.tag = "Le" -> result = Value(p1.n <= p2.n)
                   [] expr.tag = "Gt" -> result = Value(p1.n > p2.n)
                   [] expr.tag = "Ge" -> result = Value(p1.n >= p2.n)
            ELSE result = [sort |-> expr.sort, tag |-> expr.tag, e1 |-> p1, e2 |-> p2]

\* Sub(2, 3) was folded to the literal P - 1
C10_Witness ==
    /\ expr = Binary("Sub", Number(2), Number(3))
    /\ result = Number(P - 1)

\* C11: IfElse resolution.  Both arms and the condition are propagated in every
\* case: when any of the three aborts, the IfElse aborts, also when the arm that
\* aborts is the one the condition does not select.  Otherwise the result is
\* the propagated then-arm when the condition folds to Value(true), the
\* propagated else-arm when it folds to Value(false), and the IfElse of the
\* three propagated sub-terms in every other case.
C11_IfElseResolution ==
    (result # Unset /\ expr.tag = "IfElse") =>
        LET c == PropagateExpression(expr.condition, constants)
            t == PropagateExpression(expr.consequence, constants)
            f == PropagateExpression(expr.alternative, constants)
        IN  IF IsPanic(c) \/ IsPanic(t) \/ IsPanic(f)
            THEN IsPanic(result)
            ELSE IF c = Value(TRUE) THEN result = t
            ELSE IF c = Value(FALSE) THEN result = f
            ELSE result = [sort |-> "FieldElement", tag |-> "IfElse", condition |-> c,
                           consequence |-> t, alternative |-> f]

\* the condition is true, the then-arm is a literal, and the Select past the end
\* of the literal array in the else-arm has aborted the propagation
C11_Witness ==
    /\ expr = IfElse(Value(TRUE), Number(1), Select(ArrA, Number(ArrSize)))
    /\ Contains(constants, AssigneeIdentifier(VarA))
    /\ result = Panic("OutOfBounds")

\* a Number, a boolean Value, or an array Value whose elements are all Numbers
IsLiteral(e) ==
    \/ IsNumber(e)
    \/ IsBoolValue(e)
    \/ IsArrayValue(e) /\ AllNumbers(e.v)

\* C12: whole-variable definition.  A Definition of var whose propagated expr
\* is a literal emits nothing and binds var to that literal, replacing an
\* earlier binding and touching no other; a Definition whose propagated expr is
\* anything else is emitted with the propagated expr and leaves the constants
\* map as it was, an earlier binding of var included.  A returned identifier that
\* has a binding is emitted as that binding.
C12_WholeDefinition ==
    [][LET s == statements'[Len(statements')]
       IN  /\ IsWholeDefinition(s) =>
                LET e == PropagateExpression(s.expr, constants)
                IN  /\ (~IsPanic(e) /\ IsLiteral(e))
                        => /\ status' = "running"
                           /\ output' = output
                           /\ Contains(constants', s.assignee)
                           /\ constants'[s.assignee] = e
                           /\ SameExcept(constants, constants', s.assignee)
                    /\ (~IsPanic(e) /\ ~IsLiteral(e))
                        => /\ status' = "running"
                           /\ output' = Append(output, Definition(s.assignee, e))
                           /\ constants' = constants
                    /\ (status' = "running" /\ output' = output) => IsLiteral(e)
           /\ (s.tag = "Return" /\ status' = "done") =>
                \A j \in 1..Len(s.expressions) :
                    (s.expressions[j].tag = "Identifier"
                     /\ Contains(constants, AssigneeIdentifier(VarOf(s.expressions[j]))))
                    => output'[Len(output')].expressions[j]
                          = constants[AssigneeIdentifier(VarOf(s.expressions[j]))]
      ]_vars

\* x = 1; x = y; return x, b: the second definition was emitted, the binding of
\* x to 1 was kept and has resolved the returned x
C12_Witness ==
    /\ status = "done"
    /\ statements = <<Definition(AssigneeIdentifier(VarX), Number(1)),
                      Definition(AssigneeIdentifier(VarX), FIdentifier("y")),
                      Return(<<FIdentifier("x"), BIdentifier("b")>>)>>
    /\ output = <<Definition(AssigneeIdentifier(VarX), FIdentifier("y")),
                  Return(<<Number(1), BIdentifier("b")>>)>>
    /\ constants[AssigneeIdentifier(VarX)] = Number(1)

\* C13: emission and order.  A Return, Condition, Declaration or
\* MultipleDefinition that does not abort appends exactly one statement to the
\* output, its own rewrite (the propagated expressions under the same
\* constructor, a Condition between unequal literals included), and leaves the
\* constants map as it was.  Every step keeps the statements emitted so far and
\* appends at most one statement, of the kind of the statement consumed; a step
\* that appends nothing and does not abort has consumed a Definition.
C13_EmissionAndOrder ==
    [][LET s == statements'[Len(statements')]
           out == output'[Len(output')]
           ok == status' \in {"running", "done"}
       IN  /\ (ok /\ s.tag \in {"Return", "Condition", "Declaration", "MultipleDefinition"})
                => /\ Len(output') = Len(output) + 1
                   /\ output' = Append(output, out)
                   /\ constants' = constants
                   /\ out.tag = s.tag
           /\ (ok /\ s.tag = "Return")
                => /\ Len(out.expressions) = Len(s.expressions)
                   /\ \A j \in 1..Len(s.expressions) :
                        out.expressions[j] = PropagateExpression(s.expressions[j], constants)
           /\ (ok /\ s.tag = "Condition")
                => /\ out.e1 = PropagateExpression(s.e1, constants)
                   /\ out.e2 = PropagateExpression(s.e2, constants)
           /\ (ok /\ s.tag = "Declaration") => out = s
           /\ (ok /\ s.tag = "MultipleDefinition")
                => /\ out.variables = s.variables
                   /\ out.list.id = s.list.id
                   /\ out.list.arguments = PropagateAll(s.list.arguments, constants)
           /\ Len(output') \in {Len(output), Len(output) + 1}
           /\ SubSeq(output', 1, Len(output)) = output
           /\ Len(output') = Len(output) + 1
                => /\ out.tag = s.tag
                   /\ s.tag = "Definition" => out.assignee.var = s.assignee.var
           /\ (ok /\ output' = output) => s.tag = "Definition"
      ]_vars

\* x = MaxLit; assert x == 1; return x, b: the definition was absorbed, the
\* assertion between the unequal literals MaxLit and 1 was emitted, then the Return
C13_Witness ==
    /\ status = "done"
    /\ Len(statements) = 3
    /\ statements[1] = Definition(AssigneeIdentifier(VarX), Number(MaxLit))
    /\ statements[2] = Condition(FIdentifier("x"), Number(1))
    /\ output = <<Condition(Number(MaxLit), Number(1)),
                  Return(<<Number(MaxLit), BIdentifier("b")>>)>>

\* the variables that a whole Definition or an element write of stmts assigns
DefinedIn(stmts) ==
    {stmts[i].assignee.var : i \in {j \in 1..Len(stmts) : stmts[j].tag = "Definition"}}

\* C14: per-function environment.  The functions propagated so far are as many
\* as the functions consumed, in the same order, each with its id and signature;
\* the statements of each are what the propagation of that function alone, from
\* an empty constants map, gives, so two equal functions of a program have equal
\* outputs wherever they stand; an identifier that a function returns and does
\* not define is returned as that identifier, whatever the functions before it
\* have bound.  A program that is returned has all its functions.
C14_PerFunctionEnvironment ==
    status \in {"program", "propagated"} =>
        /\ Len(functions) <= Len(program)
        /\ status = "propagated" => Len(functions) = Len(program)
        /\ \A i \in 1..Len(functions) :
              /\ functions[i].id = program[i].id
              /\ functions[i].signature = program[i].signature
              /\ functions[i].statements = FunctionPropagate(program[i].statements).statements
              /\ \A j \in 1..Len(functions) :
                    program[i] = program[j] => functions[i] = functions[j]
              /\ LET stmts == program[i].statements
                     ret == stmts[Len(stmts)]
                     out == functions[i].statements[Len(functions[i].statements)]
                 IN  \A j \in 1..Len(ret.expressions) :
                        (ret.expressions[j].tag = "Identifier"
                         /\ VarOf(ret.expressions[j]) \notin DefinedIn(stmts))
                        => out.expressions[j] = ret.expressions[j]

\* main binds x and b to literals; g, propagated next, reads x and b and
\* returns b: both are left as identifiers, and the program is returned
C14_Witness ==
    /\ status = "propagated"
    /\ Len(program) = 3
    /\ program[1].id = "main"
    /\ program[2].id = "g"
    /\ program[3].id = "f"
    /\ functions[1].statements = <<Return(<<Number(MaxLit)>>)>>
    /\ functions[2].statements =
          <<Definition(AssigneeIdentifier(VarY),
                       IfElse(BIdentifier("b"), FIdentifier("x"), Number(0))),
            Return(<<FIdentifier("y"), BIdentifier("b")>>)>>
    /\ functions[3].statements = <<Return(<<Binary("Add", FIdentifier("x"), Number(1))>>)>>

\* a Select of an array that propagates to an identifier, at an index that folds
\* to a Number
UnboundSelect(e, c) ==
    /\ e.sort = "FieldElement"
    /\ e.tag = "Select"
    /\ PropagateExpression(e.array, c).sort = "FieldElementArray"
    /\ PropagateExpression(e.array, c).tag = "Identifier"
    /\ IsNumber(PropagateExpression(e.index, c))

HasShapeOf(e, var) ==
    CASE var.ty = "FieldElement" -> IsNumber(e)
      [] var.ty = "Boolean" -> IsBoolValue(e)
      [] var.ty = "FieldElementArray" ->
            IsArrayValue(e) /\ e.size = var.size /\ Len(e.v) = var.size

\* C16: TypeInvariant is unreachable on well-typed input (the statements of the
\* input programs are all well typed).  Every value of the constants map has
\* the shape of the type of its key's variable, the pass never aborts with
\* TypeInvariant, and every returned expression is emitted as an expression of
\* its own sort: the field variable x and the boolean variable x resolve each
\* to its own binding, and one of them that is unbound stays an identifier while
\* the other is bound.
C16_TypeInvariantUnreachable ==
    /\ \A k \in DOMAIN constants : k.tag = "Identifier" => HasShapeOf(constants[k], k.var)
    /\ status # "TypeInvariant"
    /\ status = "done" =>
          LET ret == LastStatement
              out == output[Len(output)]
          IN  \A j \in 1..Len(ret.expressions) :
                 /\ out.expressions[j].sort = ret.expressions[j].sort
                 /\ ret.expressions[j].tag = "Identifier" =>
                       LET key == AssigneeIdentifier(VarOf(ret.expressions[j]))
                       IN  out.expressions[j]
                              = IF Contains(constants, key) THEN constants[key]
                                ELSE ret.expressions[j]

\* x = MaxLit; return x, x with the second x a boolean: the field x was resolved
\* and the boolean x, which has no binding, was not
C16_Witness ==
    /\ status = "done"
    /\ statements = <<Definition(AssigneeIdentifier(VarX), Number(MaxLit)),
                      Return(<<FIdentifier("x"), BIdentifier("x")>>)>>
    /\ output = <<Return(<<Number(MaxLit), BIdentifier("x")>>)>>
    /\ DOMAIN constants = {AssigneeIdentifier(VarX)}

====
